---------------------------- MODULE Spec2Model ----------------------------
(***************************************************************************)
(* Model of SemanticCoordinationAnalysis:                                  *)
(*   PTB.py      constituency trees  -> rows of two-conjunct coordinations *)
(*   depccps.py  CoNLL-U sentences   -> rows of two-conjunct coordinations *)
(*   wordnet_relations.py  the relation queries over a WordNet database    *)
(*   utils.pretty_print    a table of coordinations -> sectioned RTF lines *)
(*                                                                         *)
(* A run is one run of one of the programs (the variable prog says which): *)
(* "PTB" and "depccps" are runs over one input file, "batch" is the loop   *)
(* of either program over several input files, "wordnet" is a call of a    *)
(* relation function, "pretty_print" a call of utils.pretty_print.         *)
(* The input file of PTB.py or depccps.py is read piece by piece: the      *)
(* actions AddRoot/AddChild (PTB) and AddToken/SetRel/AddDep (depccps)     *)
(* are the environment supplying the next line / sentence, ProcessLine and *)
(* ProcessSentence are one iteration of the programs' main loops.          *)
(*                                                                         *)
(* Python strings that the code inspects character by character (labels,   *)
(* leaves, reconstructed texts) are sequences of one-character strings, so *)
(* that `in`, re.search, split and join are computed, not assumed.         *)
(***************************************************************************)
EXTENDS Naturals, Sequences, FiniteSets, TLC

VARIABLES
    prog,           \* which program runs: "PTB", "depccps", "batch", "wordnet", "pretty_print"
    \* ---- PTB.py
    gum,            \* args.gum
    nodes,          \* the tree of the line being read (arena in preorder)
    used,           \* tree nodes read from the file so far
    coordphrases,   \* PTB.py: coordphrases of the last processed line
    origin,         \* history: origin[k] = the subtree s whose loop iteration appended coordphrases[k]
    data,           \* PTB.py: data, the rows appended so far
    ptb_pc,         \* "reading" | "processed"
    \* ---- depccps.py
    tokenlist,      \* the sentence being read
    tokens_used,    \* tokens read from the file so far
    marks_used,     \* non-default annotations (relations, enhanced deps) read so far
    id_sets,        \* depccps.py: conjunct_id_sets of the last processed sentence, per conjunction
    dep_phrases,    \* depccps.py: coordphrases of the last processed sentence
    dep_data,       \* depccps.py: data, the rows appended so far
    dep_csv,        \* depccps.py: the rows written to the file's CSV
    dep_pc,         \* "reading" | "processed" | "written"
    \* ---- wordnet_relations.py
    wn_senses,      \* WordNet: the lemmas, pairs <<name, synset>>
    wn_hyper,       \* WordNet: the hypernym pointers, pairs <<synset, hypernym>>
    wn_entail,      \* WordNet: the entailment pointers, pairs <<synset, entailed synset>>
    wn_anto,        \* WordNet: the antonym pointers, pairs <<lemma, lemma>>
    wn_query,       \* the last call: <<function, word1, word2, tag>>
    wn_result,      \* its outcome: "True" | "False" | "None" | "ValueError"
    wn_pc,          \* "building" | "answered"
    \* ---- the loop over the input files of PTB.py and depccps.py
    b_prog,         \* the program of the batch run: "PTB" or "depccps"
    b_gum,          \* args.gum of a PTB.py batch run
    b_files,        \* args.input_files: per file, whether it can be opened and its lines
    b_i,            \* the position of the loop in args.input_files
    b_csv,          \* the CSV files written: [file |-> position of the input file, rows |-> ...]
    b_pc,           \* "args" | "running" | "done" | "crashed"
    \* ---- utils.pretty_print
    pp_df,          \* input_df: its rows [index, cat1, cat2], in row order
    pp_i,           \* the number of rows that iterrows has yielded
    pp_section,     \* section
    pp_out,         \* what was written to out_file, in order
    pp_pc           \* "input" | "printing" | "closed"

ptb_vars == <<gum, nodes, used, coordphrases, origin, data, ptb_pc>>
dep_vars == <<tokenlist, tokens_used, marks_used, id_sets, dep_phrases, dep_data, dep_csv, dep_pc>>
wn_vars == <<wn_senses, wn_hyper, wn_entail, wn_anto, wn_query, wn_result, wn_pc>>
batch_vars == <<b_prog, b_gum, b_files, b_i, b_csv, b_pc>>
pp_vars == <<pp_df, pp_i, pp_section, pp_out, pp_pc>>
aux_vars == <<wn_vars, batch_vars, pp_vars>>
vars == <<prog, ptb_vars, dep_vars, aux_vars>>

-----------------------------------------------------------------------------
(* Bounds of the model *)

\* tree nodes (labelled subtrees) per input file of PTB.py
MaxNodes == 5
\* tokens per input file of depccps.py
MaxTokens == 3
\* relations and enhanced dependencies written on the tokens of an input file
MaxMarks == 3

-----------------------------------------------------------------------------
(* Python strings as character sequences *)

\* Python: sub in s   (also re.search of a literal pattern)
Contains(sub, s) ==
    \E i \in 0..Len(s) : i + Len(sub) <= Len(s) /\ SubSeq(s, i + 1, i + Len(sub)) = sub

\* Python: s.split('-')[0]
SplitFirst(s) ==
    IF \E i \in 1..Len(s) : s[i] = "-"
    THEN LET first == CHOOSE i \in 1..Len(s) : s[i] = "-" /\ \A j \in 1..(i - 1) : s[j] # "-"
         IN  SubSeq(s, 1, first - 1)
    ELSE s

RECURSIVE Join(_)
\* Python: " ".join(strs)
Join(strs) ==
    IF strs = <<>> THEN <<>>
    ELSE IF Len(strs) = 1 THEN strs[1]
    ELSE strs[1] \o <<" ">> \o Join(Tail(strs))

RECURSIVE Flatten(_)
\* concatenation of a sequence of sequences
Flatten(ss) == IF ss = <<>> THEN <<>> ELSE ss[1] \o Flatten(Tail(ss))

\* the literals of PTB.py
STR_neither == <<"n", "e", "i", "t", "h", "e", "r">>
STR_nor     == <<"n", "o", "r">>
STR_CC      == <<"C", "C">>
STR_VP      == <<"V", "P">>
STR_CCP     == <<"-", "C", "C", "P">>
STR_COORD   == <<"-", "C", "O", "O", "R", "D">>
STR_CC_CC   == <<"C", "C", "-", "C", "C">>

\* labels and leaves of the input trees
STR_NP       == <<"N", "P">>
STR_NP_CCP   == <<"N", "P", "-", "C", "C", "P">>
STR_NP_COORD == <<"N", "P", "-", "C", "O", "O", "R", "D">>
STR_NP_CCP_COORD == <<"N", "P", "-", "C", "C", "P", "-", "C", "O", "O", "R", "D">>
STR_trace    == <<"*", "T", "*">>

\* the nodes of the input trees: <<label, leaf>>, leaf = <<>> for a phrase
\* node (its children are subtrees), the token for a preterminal.
\* A GUM (unannotated) file:
GumNodes ==
    {<<STR_VP, <<>>>>, <<STR_NP, <<>>>>,
     <<STR_CC, STR_neither>>, <<STR_CC, STR_nor>>,
     <<STR_NP, STR_neither>>, <<STR_NP, STR_nor>>, <<STR_NP, STR_trace>>}
\* A PTB.ext (annotated) file:
ExtNodes ==
    {<<STR_NP, <<>>>>, <<STR_NP_CCP, <<>>>>, <<STR_NP_CCP_COORD, <<>>>>,
     <<STR_NP_COORD, STR_nor>>, <<STR_NP_COORD, STR_trace>>,
     <<STR_CC_CC, STR_nor>>, <<STR_CC_CC, STR_trace>>}

-----------------------------------------------------------------------------
(* nltk.ParentedTree as an arena: t[i] = [label, parent, leaf]; the nodes   *)
(* are stored in preorder, parent = 0 for the root, leaf = <<>> for a node  *)
(* whose children are subtrees, leaf = the token for a preterminal.         *)

NoLeaf == <<>>

Node(l, p, leaf) == [label |-> l, parent |-> p, leaf |-> leaf]

\* list(t[i]) for a node whose children are subtrees: the child subtrees in order
Kids(t, i) == SelectSeq([k \in 1..Len(t) |-> k], LAMBDA k : t[k].parent = i)

\* len(list(t[i])): a preterminal has one child, its leaf
NumChildren(t, i) == IF t[i].leaf # NoLeaf THEN 1 ELSE Len(Kids(t, i))

\* position of node i among its parent's children (ParentedTree.parent_index)
ParentIndex(t, i) ==
    LET ks == Kids(t, t[i].parent) IN CHOOSE k \in 1..Len(ks) : ks[k] = i

\* ParentedTree.left_sibling / right_sibling; 0 stands for None
LeftSibling(t, i) ==
    IF t[i].parent # 0 /\ ParentIndex(t, i) > 1
    THEN Kids(t, t[i].parent)[ParentIndex(t, i) - 1] ELSE 0
RightSibling(t, i) ==
    IF t[i].parent # 0 /\ ParentIndex(t, i) < Len(Kids(t, t[i].parent))
    THEN Kids(t, t[i].parent)[ParentIndex(t, i) + 1] ELSE 0

RECURSIVE Leaves(_, _)
\* tree.leaves(): the leaf tokens under node i, left to right
Leaves(t, i) ==
    IF t[i].leaf # NoLeaf THEN <<t[i].leaf>>
    ELSE LET ks == Kids(t, i) IN Flatten([k \in 1..Len(ks) |-> Leaves(t, ks[k])])

\* re.search('\*', leaf)
IsTrace(leaf) == Contains(<<"*">>, leaf)

\* a wrong get_tree_text: the trace leaves are kept
get_tree_text_keeps_traces(t, i) == Join(Leaves(t, i))

\* PTB.get_tree_text
get_tree_text(t, i) ==
    Join(SelectSeq(Leaves(t, i), LAMBDA leaf : ~IsTrace(leaf)))


-----------------------------------------------------------------------------
(* PTB.get_coordphrases: the unannotated (GUM) matcher *)

\* a conjunct: (category, text)
Conjunct(t, i) == <<t[i].label, get_tree_text(t, i)>>

\* a phrase: (conjuncts, conjunction, phrase_cat, phrase_text), the phrase
\* category and text being those of the CC node's parent
PhraseOf(t, parent, conjuncts, conjunction) ==
    <<conjuncts, conjunction, t[parent].label, get_tree_text(t, parent)>>

\* the filter of tree.subtrees: label CC and a parent of 3 or 4 children.
\* (A root labelled CC has no parent and the filter raises; the input trees
\* of the model have a root that is not a CC, see AddRoot.)
IsCoordCC(t, s) ==
    /\ t[s].label = STR_CC
    /\ t[s].parent # 0
    /\ (NumChildren(t, t[s].parent) = 3 \/ NumChildren(t, t[s].parent) = 4)

\* a wrong three-prong branch: the conjuncts are taken in the opposite order
ThreeProngSwapped(t, s) ==
    LET left == LeftSibling(t, s)
        right == RightSibling(t, s)
    IN  IF left = 0 \/ right = 0 THEN <<>>
        ELSE <<PhraseOf(t, t[s].parent, <<Conjunct(t, right), Conjunct(t, left)>>,
                        get_tree_text(t, s))>>

\* simple three-prong coordination phrases
ThreeProng(t, s) ==
    LET left == LeftSibling(t, s)
        right == RightSibling(t, s)
    IN  IF left = 0 \/ right = 0 THEN <<>>
        ELSE <<PhraseOf(t, t[s].parent, <<Conjunct(t, left), Conjunct(t, right)>>,
                        get_tree_text(t, s))>>

\* get_tree_text(parent[0]) == 'neither' and get_tree_text(parent[2]) == 'nor'
IsNeitherNor(t, parent) ==
    /\ get_tree_text(t, Kids(t, parent)[1]) = STR_neither
    /\ get_tree_text(t, Kids(t, parent)[3]) = STR_nor

\* a wrong neither-nor branch: the conjunction is the matched CC node's text
NeitherNorConjunctionOfMatch(t, s) ==
    LET ks == Kids(t, t[s].parent)
    IN  <<PhraseOf(t, t[s].parent, <<Conjunct(t, ks[2]), Conjunct(t, ks[4])>>,
                   get_tree_text(t, s))>>

\* "neither-nor" coordination phrases: conjuncts parent[1] and parent[3]
NeitherNor(t, s) ==
    LET ks == Kids(t, t[s].parent)
    IN  <<PhraseOf(t, t[s].parent, <<Conjunct(t, ks[2]), Conjunct(t, ks[4])>>, STR_nor)>>

\* a wrong VP test: the parent's label is not looked at
IsVPComplementsAnyParent(t, parent) ==
    t[Kids(t, parent)[3]].label = STR_CC

\* parent.label() == 'VP' and parent[2].label() == 'CC'
IsVPComplements(t, parent) ==
    /\ t[parent].label = STR_VP
    /\ t[Kids(t, parent)[3]].label = STR_CC

\* VPs with both conjuncts as complements: conjuncts parent[1] and parent[3]
VPComplements(t, s) ==
    LET ks == Kids(t, t[s].parent)
    IN  <<PhraseOf(t, t[s].parent, <<Conjunct(t, ks[2]), Conjunct(t, ks[4])>>,
                   get_tree_text(t, ks[3]))>>

\* the body of the loop for one matched CC node s: the phrases it appends
PhrasesAt(t, s) ==
    IF NumChildren(t, t[s].parent) = 3 THEN ThreeProng(t, s)
    ELSE IF IsNeitherNor(t, t[s].parent) THEN NeitherNor(t, s)
    ELSE IF IsVPComplements(t, t[s].parent) THEN VPComplements(t, s)
    ELSE <<>>

\* PTB.get_coordphrases(tree)
get_coordphrases(t) ==
    Flatten([s \in 1..Len(t) |-> IF IsCoordCC(t, s) THEN PhrasesAt(t, s) ELSE <<>>])

\* for each phrase of get_coordphrases(tree), the matched CC node that produced it
get_coordphrases_origin(t) ==
    Flatten([s \in 1..Len(t) |->
        IF IsCoordCC(t, s) THEN [k \in 1..Len(PhrasesAt(t, s)) |-> s] ELSE <<>>])

-----------------------------------------------------------------------------
(* PTB.get_coordphrases_ptbext: the annotated (PTB.ext) matcher *)

\* a wrong conjunct collection: every descendant labelled -COORD is collected
CoordConjunctsDeep(t, s) ==
    LET RECURSIVE Below(_)
        Below(i) == LET ks == Kids(t, i)
                    IN  Flatten([k \in 1..Len(ks) |-> <<ks[k]>> \o Below(ks[k])])
        ds == SelectSeq(Below(s), LAMBDA c : Contains(STR_COORD, t[c].label))
    IN  [k \in 1..Len(ds) |-> Conjunct(t, ds[k])]

\* the conjuncts of the -CCP node s: its children labelled with "-COORD"
CoordConjuncts(t, s) ==
    LET cs == SelectSeq(Kids(t, s), LAMBDA c : Contains(STR_COORD, t[c].label))
    IN  [k \in 1..Len(cs) |-> Conjunct(t, cs[k])]

\* the children of s labelled with "CC-CC"
ConjunctionKids(t, s) ==
    SelectSeq(Kids(t, s), LAMBDA c : Contains(STR_CC_CC, t[c].label))

\* the body of the loop for one -CCP node s; the conjunction is the text of
\* the last CC-CC child (each one overwrites the previous)
PhrasesAtExt(t, s) ==
    LET ccs == ConjunctionKids(t, s)
    IN  IF ccs = <<>> THEN <<>>
        ELSE <<<<CoordConjuncts(t, s), get_tree_text(t, ccs[Len(ccs)]),
                 t[s].label, get_tree_text(t, s)>>>>

\* the filter of tree.subtrees: "-CCP" in t.label()
IsCCP(t, s) == Contains(STR_CCP, t[s].label)

\* PTB.get_coordphrases_ptbext(tree)
get_coordphrases_ptbext(t) ==
    Flatten([s \in 1..Len(t) |-> IF IsCCP(t, s) THEN PhrasesAtExt(t, s) ELSE <<>>])

\* for each phrase of get_coordphrases_ptbext(tree), the -CCP node that produced it
get_coordphrases_ptbext_origin(t) ==
    Flatten([s \in 1..Len(t) |->
        IF IsCCP(t, s) THEN [k \in 1..Len(PhrasesAtExt(t, s)) |-> s] ELSE <<>>])

-----------------------------------------------------------------------------
(* PTB.py main loop *)

\* a wrong filter: only coordinations of more than two terms are dropped
TwoTermedAtMost(conjuncts) == Len(conjuncts) <= 2

\* "Only include two-termed coordinations": not (len(conjuncts) != 2)
TwoTermed(conjuncts) == Len(conjuncts) = 2

\* the row of one phrase: per conjunct its category up to the first '-' and
\* its text, then phrase category, phrase text, conjunction, sentence text
\* and the sentence's parse tree
PTBRow(phrase, t) ==
    Flatten([k \in 1..Len(phrase[1]) |->
                <<SplitFirst(phrase[1][k][1]), phrase[1][k][2]>>])
    \o <<SplitFirst(phrase[3]), phrase[4], phrase[2], get_tree_text(t, 1), t>>

\* the rows appended for one sentence
PTBRows(phrases, t) ==
    LET kept == SelectSeq(phrases, LAMBDA ph : TwoTermed(ph[1]))
    IN  [k \in 1..Len(kept) |-> PTBRow(kept[k], t)]

RECURSIVE Ancestors(_, _)
Ancestors(t, i) == IF i = 0 THEN {} ELSE {i} \cup Ancestors(t, t[i].parent)

\* the nodes a next subtree of the line can be attached to, reading the
\* bracketing left to right: the last node read and the nodes above it
OpenNodes(t) == {i \in Ancestors(t, Len(t)) : t[i].leaf = NoLeaf}

InputNodes == IF gum THEN GumNodes ELSE ExtNodes

\* the input trees are treebank trees: a token hangs under a preterminal of
\* its own, and a coordination phrase node (-CCP) is not a preterminal
WellFormedNode(l, leaf) == leaf # NoLeaf => ~Contains(STR_CCP, l)

\* the next line of the file starts: its root (never a bare CC)
AddRoot(l, leaf) ==
    /\ prog = "PTB"
    /\ \/ ptb_pc = "reading" /\ nodes = <<>>
       \/ ptb_pc = "processed"
    /\ used < MaxNodes
    /\ l # STR_CC
    /\ WellFormedNode(l, leaf)
    /\ nodes' = <<Node(l, 0, leaf)>>
    /\ used' = used + 1
    /\ coordphrases' = <<>>
    /\ origin' = <<>>
    /\ ptb_pc' = "reading"
    /\ UNCHANGED <<prog, gum, data, dep_vars, aux_vars>>

\* the line goes on: one more subtree under an open node
AddChild(p, l, leaf) ==
    /\ prog = "PTB"
    /\ ptb_pc = "reading"
    /\ nodes # <<>>
    /\ used < MaxNodes
    /\ p \in OpenNodes(nodes)
    /\ WellFormedNode(l, leaf)
    /\ nodes' = Append(nodes, Node(l, p, leaf))
    /\ used' = used + 1
    /\ UNCHANGED <<prog, gum, coordphrases, origin, data, ptb_pc, dep_vars, aux_vars>>

\* one iteration of "for sent_tree in tqdm(lines)"
ProcessLine ==
    /\ prog = "PTB"
    /\ ptb_pc = "reading"
    /\ nodes # <<>>
    /\ coordphrases' = IF gum THEN get_coordphrases(nodes)
                       ELSE get_coordphrases_ptbext(nodes)
    /\ origin' = IF gum THEN get_coordphrases_origin(nodes)
                 ELSE get_coordphrases_ptbext_origin(nodes)
    /\ data' = data \o PTBRows(coordphrases', nodes)
    /\ ptb_pc' = "processed"
    /\ UNCHANGED <<prog, gum, nodes, used, dep_vars, aux_vars>>

\* wordnet_relations.py is not running: an empty database, no call made
WNIdle ==
    /\ wn_senses = {}
    /\ wn_hyper = {}
    /\ wn_entail = {}
    /\ wn_anto = {}
    /\ wn_query = <<>>
    /\ wn_result = "None"
    /\ wn_pc = "building"

\* no batch run
BatchIdle ==
    /\ b_prog = "PTB"
    /\ b_gum = FALSE
    /\ b_files = <<>>
    /\ b_i = 1
    /\ b_csv = <<>>
    /\ b_pc = "args"

\* utils.pretty_print is not called
PrettyIdle ==
    /\ pp_df = <<>>
    /\ pp_i = 0
    /\ pp_section = <<>>
    /\ pp_out = <<>>
    /\ pp_pc = "input"

AuxIdle == WNIdle /\ BatchIdle /\ PrettyIdle

DepIdle ==
    /\ tokenlist = <<>>
    /\ tokens_used = 0
    /\ marks_used = 0
    /\ id_sets = <<>>
    /\ dep_phrases = <<>>
    /\ dep_data = <<>>
    /\ dep_csv = <<>>
    /\ dep_pc = "reading"

InitPTB ==
    /\ prog = "PTB"
    /\ gum \in BOOLEAN
    /\ nodes = <<>>
    /\ used = 0
    /\ coordphrases = <<>>
    /\ origin = <<>>
    /\ data = <<>>
    /\ ptb_pc = "reading"
    /\ DepIdle
    /\ AuxIdle

NextPTB ==
    \/ \E n \in InputNodes : AddRoot(n[1], n[2])
    \/ \E p \in 1..Len(nodes), n \in InputNodes : AddChild(p, n[1], n[2])
    \/ ProcessLine

SpecPTB == InitPTB /\ [][NextPTB]_vars

\* the runs of PTB.py with --gum, and those without
InitGum == InitPTB /\ gum
InitExt == InitPTB /\ ~gum
SpecGum == InitGum /\ [][NextPTB]_vars
SpecExt == InitExt /\ [][NextPTB]_vars


-----------------------------------------------------------------------------
(* depccps.py: a CoNLL-U sentence is a sequence of tokens                   *)
(*   [id, form, lemma, upos, head, deprel, deps]                            *)
(* in file order, the ids being 1, 2, ... (the sentences of the model have  *)
(* no multiword or empty-node ids).  deps is the list of (label, head)      *)
(* pairs of the enhanced dependencies; <<>> stands for None (the column is  *)
(* "_": the parser never yields an empty list).  A label "conj:and" is the  *)
(* pair <<"conj", "and">>, so that 'conj:'+cc is <<"conj", cc>>.  head 0 is *)
(* the root's head and stands for the None head of an elided relation too.  *)

\* depccps.py main: the conjunctions the phrases are extracted for, in order
CCS == <<"and", "or", "but", "nor">>

\* (upos, lemma, form) of the input tokens
Lexicon == {<<"NOUN", "cat", "cats">>, <<"VERB", "be", "is">>, <<"PRON", "it", "it">>}
\* labels of the input enhanced dependencies
DepLabels == {<<"conj", "and">>, <<"conj", "or">>}

Token(i, lex) ==
    [id |-> i, form |-> lex[3], lemma |-> lex[2], upos |-> lex[1],
     head |-> 0, deprel |-> "root", deps |-> <<>>]

\* a wrong resolution: the conjuncts are listed in the order of the ids given
get_conjuncts_in_ids_order(ids, toks) ==
    LET present == SelectSeq(ids, LAMBDA i : \E k \in 1..Len(toks) : toks[k].id = i)
        tokOf(i) == toks[CHOOSE k \in 1..Len(toks) : toks[k].id = i]
    IN  [k \in 1..Len(present) |->
            <<tokOf(present[k]).upos,
              IF tokOf(present[k]).deprel # "_" THEN tokOf(present[k]).lemma ELSE "GAP",
              tokOf(present[k]).form>>]

\* depccps.get_conjuncts_from_ids: tokenlist.filter keeps the tokens whose id
\* is in ids, in sentence order
get_conjuncts_from_ids(ids, toks) ==
    LET conjunct_tokens ==
            SelectSeq(toks, LAMBDA tok : \E k \in 1..Len(ids) : ids[k] = tok.id)
    IN  [k \in 1..Len(conjunct_tokens) |->
            <<conjunct_tokens[k].upos,
              IF conjunct_tokens[k].deprel # "_" THEN conjunct_tokens[k].lemma ELSE "GAP",
              conjunct_tokens[k].form>>]

\* a wrong promotion test: any dependent counts, not only an orphan
is_promoted_any_dependent(id, toks) ==
    \E k \in 1..Len(toks) : toks[k].head = id

\* depccps.is_promoted_conjunct
is_promoted_conjunct(id, toks) ==
    \E k \in 1..Len(toks) : toks[k].deprel = "orphan" /\ toks[k].head = id

\* depccps.get_conj_dep: the head of the first dependency labelled 'conj:'+cc,
\* 0 for None
get_conj_dep(deps, cc) ==
    IF \E k \in 1..Len(deps) : deps[k][1] = <<"conj", cc>>
    THEN deps[CHOOSE k \in 1..Len(deps) :
                /\ deps[k][1] = <<"conj", cc>>
                /\ \A j \in 1..(k - 1) : deps[j][1] # <<"conj", cc>>][2]
    ELSE 0

\* s.add(x) on a set kept in the order of its insertions
SetAdd(s, x) == IF \E k \in 1..Len(s) : s[k] = x THEN s ELSE Append(s, x)

\* conjunct_id_sets[key].add(x) on a defaultdict(set) kept as the sequence of
\* its <<key, set>> items in the order of their creation
DictAdd(d, key, x) ==
    IF \E k \in 1..Len(d) : d[k][1] = key
    THEN [k \in 1..Len(d) |-> IF d[k][1] = key THEN <<key, SetAdd(d[k][2], x)>> ELSE d[k]]
    ELSE Append(d, <<key, <<x>>>>)

RECURSIVE conjunct_id_sets(_, _, _)
\* the loop of get_coordphrases over the first n tokens
conjunct_id_sets(toks, cc, n) ==
    IF n = 0 THEN <<>>
    ELSE LET d == conjunct_id_sets(toks, cc, n - 1)
             tok == toks[n]
         IN  IF tok.deps # <<>> /\ ~is_promoted_conjunct(tok.id, toks)
             THEN LET first_conjunct == get_conj_dep(tok.deps, cc)
                  IN  IF first_conjunct # 0
                      THEN DictAdd(DictAdd(d, first_conjunct, first_conjunct),
                                   first_conjunct, tok.id)
                      ELSE d
             ELSE d

\* depccps.get_coordphrases: (cc, conjuncts) per item of conjunct_id_sets;
\* list(s) enumerates the set in some order, here that of the insertions
dep_get_coordphrases(toks, cc) ==
    LET d == conjunct_id_sets(toks, cc, Len(toks))
    IN  [k \in 1..Len(d) |-> <<cc, get_conjuncts_from_ids(d[k][2], toks)>>]

\* a wrong filter: only coordinations of more than two terms are dropped
DepTwoTermedAtMost(conjuncts) == Len(conjuncts) <= 2

\* "Only include two-termed coordinations": not (len(conjuncts) != 2)
DepTwoTermed(conjuncts) == Len(conjuncts) = 2

\* the row of one phrase: (category, lemma, text) per conjunct, then the
\* conjunction and the sentence text
DepRow(phrase, sent_text) ==
    Flatten([k \in 1..Len(phrase[2]) |-> phrase[2][k]]) \o <<phrase[1], sent_text>>

DepRows(phrases, sent_text) ==
    LET kept == SelectSeq(phrases, LAMBDA ph : DepTwoTermed(ph[2]))
    IN  [k \in 1..Len(kept) |-> DepRow(kept[k], sent_text)]

\* the next token of the file: of the sentence being read, or the first of
\* the next sentence
AddToken(lex) ==
    /\ prog = "depccps"
    /\ dep_pc # "written"
    /\ tokens_used < MaxTokens
    /\ tokenlist' = IF dep_pc = "processed" THEN <<Token(1, lex)>>
                    ELSE Append(tokenlist, Token(Len(tokenlist) + 1, lex))
    /\ tokens_used' = tokens_used + 1
    /\ id_sets' = IF dep_pc = "processed" THEN <<>> ELSE id_sets
    /\ dep_phrases' = IF dep_pc = "processed" THEN <<>> ELSE dep_phrases
    /\ dep_pc' = "reading"
    /\ UNCHANGED <<prog, marks_used, dep_data, dep_csv, ptb_vars, aux_vars>>

\* the HEAD and DEPREL columns of the token just read: a conj or an orphan of
\* token h, or the "_" of an elided relation (h = 0)
SetRel(deprel, h) ==
    /\ prog = "depccps"
    /\ dep_pc = "reading"
    /\ tokenlist # <<>>
    /\ marks_used < MaxMarks
    /\ tokenlist[Len(tokenlist)].deprel = "root"
    /\ tokenlist[Len(tokenlist)].deps = <<>>
    /\ (deprel = "_") = (h = 0)
    /\ tokenlist' = [tokenlist EXCEPT ![Len(tokenlist)].deprel = deprel,
                                      ![Len(tokenlist)].head = h]
    /\ marks_used' = marks_used + 1
    /\ UNCHANGED <<prog, tokens_used, id_sets, dep_phrases, dep_data, dep_csv, dep_pc, ptb_vars, aux_vars>>

\* one more pair of the DEPS column of the token just read
AddDep(label, h) ==
    /\ prog = "depccps"
    /\ dep_pc = "reading"
    /\ tokenlist # <<>>
    /\ marks_used < MaxMarks
    /\ tokenlist' = [tokenlist EXCEPT ![Len(tokenlist)].deps = Append(@, <<label, h>>)]
    /\ marks_used' = marks_used + 1
    /\ UNCHANGED <<prog, tokens_used, id_sets, dep_phrases, dep_data, dep_csv, dep_pc, ptb_vars, aux_vars>>

\* tokenlist.metadata['text']: the "# text" comment of the sentence, which in
\* the input files is the sentence's word forms
MetadataText(toks) == [k \in 1..Len(toks) |-> toks[k].form]

\* one iteration of "for tokenlist in parse_incr(file)"
ProcessSentence ==
    /\ prog = "depccps"
    /\ dep_pc = "reading"
    /\ tokenlist # <<>>
    /\ id_sets' = [c \in 1..Len(CCS) |-> conjunct_id_sets(tokenlist, CCS[c], Len(tokenlist))]
    /\ dep_phrases' = Flatten([c \in 1..Len(CCS) |-> dep_get_coordphrases(tokenlist, CCS[c])])
    /\ dep_data' = dep_data \o DepRows(dep_phrases', MetadataText(tokenlist))
    /\ dep_pc' = "processed"
    /\ UNCHANGED <<prog, tokenlist, tokens_used, marks_used, dep_csv, ptb_vars, aux_vars>>

\* depccps.py main: upos.NOUN, upos.VERB, upos.ADJ, upos.ADV
valid_categories == {"NOUN", "VERB", "ADJ", "ADV"}

\* depccps.py main: the generic lemmas
bad_lemmas == {"be", "do"}

\* df[df['1st Conjunct Category'].isin(valid_categories)], then the same on
\* the 2nd conjunct's category
closed_class(rows) ==
    SelectSeq(SelectSeq(rows, LAMBDA row : row[1] \in valid_categories),
              LAMBDA row : row[4] \in valid_categories)

\* df[~df['1st Conjunct Lemma'].isin(bad_lemmas)], then the same on the 2nd
\* conjunct's lemma
no_generic_lemmas(rows) ==
    SelectSeq(SelectSeq(rows, LAMBDA row : row[2] \notin bad_lemmas),
              LAMBDA row : row[5] \notin bad_lemmas)

\* a wrong drop_duplicates: every row stays
keep_duplicates(rows) == rows

RECURSIVE drop_duplicates(_)
\* df.drop_duplicates(): of equal rows the first stays, the order is kept
drop_duplicates(rows) ==
    IF rows = <<>> THEN <<>>
    ELSE LET before == drop_duplicates(SubSeq(rows, 1, Len(rows) - 1))
             last == rows[Len(rows)]
         IN  IF \E k \in 1..Len(before) : before[k] = last THEN before
             ELSE Append(before, last)

\* the rows of the CSV that depccps.py writes for the data of one file
DepCSV(rows) == drop_duplicates(no_generic_lemmas(closed_class(rows)))

\* the end of the file: the DataFrame is filtered and written
WriteCSV ==
    /\ prog = "depccps"
    /\ \/ dep_pc = "processed"
       \/ dep_pc = "reading" /\ tokenlist = <<>>
    /\ dep_csv' = DepCSV(dep_data)
    /\ dep_pc' = "written"
    /\ UNCHANGED <<prog, tokenlist, tokens_used, marks_used, id_sets, dep_phrases,
                   dep_data, ptb_vars, aux_vars>>

PTBIdle ==
    /\ gum = FALSE
    /\ nodes = <<>>
    /\ used = 0
    /\ coordphrases = <<>>
    /\ origin = <<>>
    /\ data = <<>>
    /\ ptb_pc = "reading"

InitDep ==
    /\ prog = "depccps"
    /\ PTBIdle
    /\ DepIdle
    /\ AuxIdle

NextDep ==
    \/ \E lex \in Lexicon : AddToken(lex)
    \/ \E deprel \in {"conj", "orphan", "_"}, h \in 0..MaxTokens : SetRel(deprel, h)
    \/ \E label \in DepLabels, h \in 1..MaxTokens : AddDep(label, h)
    \/ ProcessSentence
    \/ WriteCSV

SpecDep == InitDep /\ [][NextDep]_vars

\* one run of PTB.py or of depccps.py
Init == InitPTB \/ InitDep

Next == NextPTB \/ NextDep

Spec == Init /\ [][Next]_vars

-----------------------------------------------------------------------------
(* wordnet_relations.py.  The WordNet database behind nltk.corpus.wordnet  *)
(* is the environment: its synsets are numbers, a lemma is a pair          *)
(* <<name, synset>> (the lower-case name of a word that has the synset as  *)
(* one of its senses), and the pointers between synsets and between lemmas *)
(* are sets of pairs.  The database is built fact by fact (AddSense,       *)
(* AddHypernym, AddEntailment, AddAntonym); Query is the call of one of    *)
(* the five relation functions on the database built.  A Python result is "True", "False" or     *)
(* "None"; a call that ends in the ValueError of get_wordnet_tag has the   *)
(* outcome "ValueError".                                                    *)

\* lemmas (senses) in the database
MaxSenses == 2
\* pointers (hypernym, entailment, antonym) in the database
MaxLinks == 2

\* the synsets of the database; all of them are noun synsets
Synsets == {1, 2, 3}
SynsetPos(s) == "n"

\* the words of the calls, as character sequences
QueryWords == {<<"o", "x">>, <<"O", "x">>, <<"e", "l", "k">>}

\* the tags of the calls: universal POS tags (the categories of a depccps
\* row) and 'NN', a Penn Treebank category (utils.NOUN_CATEGORIES)
Tags == {"NOUN", "VERB", "NN"}

\* utils.NOUN_CATEGORIES: the categories of a like-noun row, which
\* utils.analyze_synonymy and the other analyses pass as the tag
NOUN_CATEGORIES == {"NN", "NNS", "NNP", "NNPS", "NP", "NX"}

\* str.lower() on the letters of the words
LowerChar(c) == IF c = "O" THEN "o" ELSE IF c = "E" THEN "e" ELSE c
Lower(w) == [i \in 1..Len(w) |-> LowerChar(w[i])]

\* wordnet_relations.get_wordnet_tag; "ValueError" is the raise of the else branch
get_wordnet_tag(upos_tag) ==
    IF upos_tag = "ADJ" THEN "a"
    ELSE IF upos_tag = "VERB" THEN "v"
    ELSE IF upos_tag = "NOUN" THEN "n"
    ELSE IF upos_tag = "ADV" THEN "r"
    ELSE "ValueError"

\* wn.synsets(word, pos=pos): the lookup is by the lower-cased word
wn_synsets(word, pos) ==
    {s \in Synsets : <<Lower(word), s>> \in wn_senses /\ SynsetPos(s) = pos}

\* synset.lemmas()
lemmas(s) == {l \in wn_senses : l[2] = s}

\* lemma.antonyms()
lemma_antonyms(l) == {a[2] : a \in {x \in wn_anto : x[1] = l}}

\* synset.hypernyms(), synset.hyponyms(), synset.entailments()
hypernyms(s) == {e[2] : e \in {x \in wn_hyper : x[1] = s}}
hyponyms(s) == {e[1] : e \in {x \in wn_hyper : x[2] = s}}
entailments(s) == {e[2] : e \in {x \in wn_entail : x[1] = s}}

\* a wrong closure: the synsets one step away only
closure_one_step(rel, ss) == {e[2] : e \in {x \in rel : x[1] = ss}}

\* synset.closure(rel): breadth first from ss along the pointers of rel,
\* every synset met except ss itself
closure(rel, ss) ==
    LET RECURSIVE Grow(_)
        Grow(seen) ==
            LET next == seen \cup {e[2] : e \in {x \in rel : x[1] \in seen \cup {ss}}}
            IN  IF next = seen THEN seen ELSE Grow(next)
    IN  Grow({}) \ {ss}

\* Python bool
Bool(b) == IF b THEN "True" ELSE "False"

\* a wrong synonyms: the words are not compared first
synonyms_without_equality_test(word1, word2, tag) ==
    LET pos == get_wordnet_tag(tag)
    IN  IF pos = "ValueError" THEN "ValueError"
        ELSE IF wn_synsets(word1, pos) = {} \/ wn_synsets(word2, pos) = {} THEN "None"
        ELSE Bool(wn_synsets(word1, pos) \cap wn_synsets(word2, pos) # {})

\* wordnet_relations.synonyms
synonyms(word1, word2, tag) ==
    IF Lower(word1) = Lower(word2) THEN "False"
    ELSE LET pos == get_wordnet_tag(tag)
         IN  IF pos = "ValueError" THEN "ValueError"
             ELSE LET syns1 == wn_synsets(word1, pos)
                      syns2 == wn_synsets(word2, pos)
                  IN  IF syns1 = {} \/ syns2 = {} THEN "None"
                      ELSE Bool(syns1 \cap syns2 # {})

\* wordnet_relations.antonyms
antonyms(word1, word2, tag) ==
    LET pos == get_wordnet_tag(tag)
    IN  IF pos = "ValueError" THEN "ValueError"
        ELSE LET syns1 == wn_synsets(word1, pos)
                 syns2 == wn_synsets(word2, pos)
                 synsets1 == UNION {lemmas(s) : s \in syns1}
             IN  IF syns1 = {} \/ syns2 = {} THEN "None"
                 ELSE Bool(\E ss \in syns2 : \E l \in lemmas(ss) :
                               lemma_antonyms(l) \cap synsets1 # {})

\* wordnet_relations.relates; rel is the pointer set the relation function reads
relates(word1, word2, rel, tag) ==
    LET pos == get_wordnet_tag(tag)
    IN  IF pos = "ValueError" THEN "ValueError"
        ELSE LET syns1 == wn_synsets(word1, pos)
                 syns2 == wn_synsets(word2, pos)
             IN  IF syns1 = {} \/ syns2 = {} THEN "None"
                 ELSE Bool(\E ss \in syns2 : closure(rel, ss) \cap syns1 # {})

\* wordnet_relations.is_hypernym
is_hypernym(word1, word2, tag) == relates(word1, word2, wn_hyper, tag)

\* wordnet_relations.get_co_hyponyms
get_co_hyponyms(synset) == UNION {hyponyms(hyper) : hyper \in hypernyms(synset)}

\* wordnet_relations.co_hyponyms
co_hyponyms(word1, word2, tag) ==
    IF Lower(word1) = Lower(word2) THEN "False"
    ELSE LET pos == get_wordnet_tag(tag)
         IN  IF pos = "ValueError" THEN "ValueError"
             ELSE LET syns1 == wn_synsets(word1, pos)
                      syns2 == wn_synsets(word2, pos)
                  IN  IF syns1 = {} \/ syns2 = {} THEN "None"
                      ELSE Bool(\E ss \in syns2 : get_co_hyponyms(ss) \cap syns1 # {})

\* wordnet_relations.entails
entails(word1, word2, tag) == relates(word2, word1, wn_entail, tag)

\* the five relation functions
Functions == {"synonyms", "antonyms", "is_hypernym", "co_hyponyms", "entails"}

Call(fn, word1, word2, tag) ==
    CASE fn = "synonyms" -> synonyms(word1, word2, tag)
      [] fn = "antonyms" -> antonyms(word1, word2, tag)
      [] fn = "is_hypernym" -> is_hypernym(word1, word2, tag)
      [] fn = "co_hyponyms" -> co_hyponyms(word1, word2, tag)
      [] fn = "entails" -> entails(word1, word2, tag)

\* the database pointers so far
Links == Cardinality(wn_hyper) + Cardinality(wn_entail) + Cardinality(wn_anto) \div 2

\* WordNet: the word named name has the sense s
AddSense(name, s) ==
    /\ prog = "wordnet"
    /\ wn_pc = "building"
    /\ Cardinality(wn_senses) < MaxSenses
    /\ <<name, s>> \notin wn_senses
    /\ wn_senses' = wn_senses \cup {<<name, s>>}
    /\ UNCHANGED <<prog, wn_hyper, wn_entail, wn_anto, wn_query, wn_result, wn_pc,
                   ptb_vars, dep_vars, batch_vars, pp_vars>>

\* WordNet: h is a hypernym of s; the hypernym pointers have no cycle
AddHypernym(s, h) ==
    /\ prog = "wordnet"
    /\ wn_pc = "building"
    /\ Links < MaxLinks
    /\ s # h
    /\ <<s, h>> \notin wn_hyper
    /\ s \notin closure(wn_hyper, h)
    /\ wn_hyper' = wn_hyper \cup {<<s, h>>}
    /\ UNCHANGED <<prog, wn_senses, wn_entail, wn_anto, wn_query, wn_result, wn_pc,
                   ptb_vars, dep_vars, batch_vars, pp_vars>>

\* WordNet: s entails e; the entailment pointers have no cycle
AddEntailment(s, e) ==
    /\ prog = "wordnet"
    /\ wn_pc = "building"
    /\ Links < MaxLinks
    /\ s # e
    /\ <<s, e>> \notin wn_entail
    /\ s \notin closure(wn_entail, e)
    /\ wn_entail' = wn_entail \cup {<<s, e>>}
    /\ UNCHANGED <<prog, wn_senses, wn_hyper, wn_anto, wn_query, wn_result, wn_pc,
                   ptb_vars, dep_vars, batch_vars, pp_vars>>

\* WordNet: the lemmas l1 and l2, of two synsets, are antonyms of each other
AddAntonym(l1, l2) ==
    /\ prog = "wordnet"
    /\ wn_pc = "building"
    /\ Links < MaxLinks
    /\ l1 \in wn_senses /\ l2 \in wn_senses
    /\ l1[2] # l2[2]
    /\ <<l1, l2>> \notin wn_anto
    /\ wn_anto' = wn_anto \cup {<<l1, l2>>, <<l2, l1>>}
    /\ UNCHANGED <<prog, wn_senses, wn_hyper, wn_entail, wn_query, wn_result, wn_pc,
                   ptb_vars, dep_vars, batch_vars, pp_vars>>

\* the call of a relation function, as utils.analyze_* make it for a row
Query(fn, word1, word2, tag) ==
    /\ prog = "wordnet"
    /\ wn_pc = "building"
    /\ wn_query' = <<fn, word1, word2, tag>>
    /\ wn_result' = Call(fn, word1, word2, tag)
    /\ wn_pc' = "answered"
    /\ UNCHANGED <<prog, wn_senses, wn_hyper, wn_entail, wn_anto, ptb_vars, dep_vars, batch_vars, pp_vars>>

Names == {Lower(w) : w \in QueryWords}

InitWN ==
    /\ prog = "wordnet"
    /\ PTBIdle
    /\ DepIdle
    /\ WNIdle
    /\ BatchIdle
    /\ PrettyIdle

NextWN ==
    \/ \E name \in Names, s \in Synsets : AddSense(name, s)
    \/ \E s, h \in Synsets : AddHypernym(s, h)
    \/ \E s, e \in Synsets : AddEntailment(s, e)
    \/ \E l1, l2 \in Names \X Synsets : AddAntonym(l1, l2)
    \/ \E fn \in Functions, word1, word2 \in QueryWords, tag \in Tags : Query(fn, word1, word2, tag)

SpecWN == InitWN /\ [][NextWN]_vars

-----------------------------------------------------------------------------
(* The loop over args.input_files of PTB.py and of depccps.py.  A batch run *)
(* is given its input files (AddInputFile: whether the file can be opened,  *)
(* and its lines or sentences, taken from a few sample ones); ProcessFile   *)
(* is one iteration of the loop.  The input files have different names up   *)
(* to the first '.', so that every file has a CSV of its own.               *)

\* input files of a batch run
MaxFiles == 2
\* lines (PTB.py) or sentences (depccps.py) of an input file
MaxLines == 2

\* (NP (NP neither) (CC nor) (NP nor)): a coordination of a GUM file
GumLine ==
    <<Node(STR_NP, 0, NoLeaf), Node(STR_NP, 1, STR_neither),
      Node(STR_CC, 1, STR_nor), Node(STR_NP, 1, STR_nor)>>

\* (NP-CCP (NP-COORD nor) (CC-CC nor) (NP-COORD *T*)): a coordination of a
\* PTB.ext file
ExtLine ==
    <<Node(STR_NP_CCP, 0, NoLeaf), Node(STR_NP_COORD, 1, STR_nor),
      Node(STR_CC_CC, 1, STR_nor), Node(STR_NP_COORD, 1, STR_trace)>>

\* "cats cats", the second a conj:and of the first
NounSentence ==
    <<Token(1, <<"NOUN", "cat", "cats">>),
      [Token(2, <<"NOUN", "cat", "cats">>) EXCEPT !.deps = <<<<<<"conj", "and">>, 1>>>>]>>

\* "is it", the second a conj:or of the first
VerbSentence ==
    <<Token(1, <<"VERB", "be", "is">>),
      [Token(2, <<"PRON", "it", "it">>) EXCEPT !.deps = <<<<<<"conj", "or">>, 1>>>>]>>

\* the lines an input file of the program is made of
SampleLines(program) ==
    IF program = "PTB" THEN {GumLine, ExtLine} ELSE {NounSentence, VerbSentence}

\* the contents of an input file: up to MaxLines lines
FileContents(program) ==
    UNION {[1..n -> SampleLines(program)] : n \in 0..MaxLines}

\* PTB.py: data after the loop over the lines of one file (data = [] before it)
PTBFileData(lines, isgum) ==
    Flatten([k \in 1..Len(lines) |->
        PTBRows(IF isgum THEN get_coordphrases(lines[k])
                ELSE get_coordphrases_ptbext(lines[k]), lines[k])])

\* depccps.py: data after the loop over the sentences of one file
DepFileData(sentences) ==
    Flatten([k \in 1..Len(sentences) |->
        DepRows(Flatten([c \in 1..Len(CCS) |-> dep_get_coordphrases(sentences[k], CCS[c])]),
                MetadataText(sentences[k]))])

\* the rows of the CSV written for one file
FileCSV(program, isgum, lines) ==
    IF program = "PTB" THEN PTBFileData(lines, isgum) ELSE DepCSV(DepFileData(lines))

\* one more path on the command line
AddInputFile(readable, lines) ==
    /\ prog = "batch"
    /\ b_pc = "args"
    /\ Len(b_files) < MaxFiles
    /\ readable \/ lines = <<>>
    /\ b_files' = Append(b_files, [readable |-> readable, lines |-> lines])
    /\ UNCHANGED <<prog, b_prog, b_gum, b_i, b_csv, b_pc, ptb_vars, dep_vars, wn_vars, pp_vars>>

\* one iteration of "for file in args.input_files": open() raises for a file
\* that cannot be opened and nothing catches it - the run is over; otherwise
\* the file's rows are collected and its CSV is written
ProcessFile ==
    /\ prog = "batch"
    /\ b_pc \in {"args", "running"}
    /\ b_i <= Len(b_files)
    /\ IF b_files[b_i].readable
       THEN /\ b_csv' = Append(b_csv, [file |-> b_i,
                                       rows |-> FileCSV(b_prog, b_gum, b_files[b_i].lines)])
            /\ b_i' = b_i + 1
            /\ b_pc' = IF b_i = Len(b_files) THEN "done" ELSE "running"
       ELSE /\ b_pc' = "crashed"
            /\ UNCHANGED <<b_csv, b_i>>
    /\ UNCHANGED <<prog, b_prog, b_gum, b_files, ptb_vars, dep_vars, wn_vars, pp_vars>>

InitBatch ==
    /\ prog = "batch"
    /\ PTBIdle
    /\ DepIdle
    /\ WNIdle
    /\ PrettyIdle
    /\ b_prog \in {"PTB", "depccps"}
    /\ b_gum \in BOOLEAN
    /\ b_prog = "depccps" => b_gum = FALSE
    /\ b_files = <<>>
    /\ b_i = 1
    /\ b_csv = <<>>
    /\ b_pc = "args"

NextBatch ==
    \/ \E readable \in BOOLEAN, lines \in FileContents(b_prog) : AddInputFile(readable, lines)
    \/ ProcessFile

SpecBatch == InitBatch /\ [][NextBatch]_vars

-----------------------------------------------------------------------------
(* utils.pretty_print(input_df, output_file).  A row of the DataFrame is    *)
(* [index, cat1, cat2]: its index label and its two conjunct categories     *)
(* (the texts of the row are not represented).  What is written to the      *)
(* file is a sequence of records: the opening "{\rtf1", a section header    *)
(* (lead tells whether it starts with "\line\line"), the numbered line of a *)
(* row, the closing "}".  The field row of a header or line is the position *)
(* of the DataFrame row whose loop iteration wrote it.                      *)

\* rows of the DataFrame
MaxRows == 3

\* the index labels of the rows; a DataFrame that was filtered, sorted or
\* concatenated keeps the labels its rows had before
IndexValues == {0, 1, 2}

\* the conjunct categories of the rows
Categories == {STR_NP, STR_VP}

\* label = cat1 + "+" + cat2
Label(row) == row.cat1 \o <<"+">> \o row.cat2

\* "if index == 0: ... elif section != label: ...": is a header written
NeedsHeader(index, section, label) == index = 0 \/ section # label

\* one more row of the DataFrame
AddRow(index, cat1, cat2) ==
    /\ prog = "pretty_print"
    /\ pp_pc = "input"
    /\ Len(pp_df) < MaxRows
    /\ pp_df' = Append(pp_df, [index |-> index, cat1 |-> cat1, cat2 |-> cat2])
    /\ UNCHANGED <<prog, pp_i, pp_section, pp_out, pp_pc, ptb_vars, dep_vars, wn_vars, batch_vars>>

\* open(output_file, 'w'); out_file.write("{\\rtf1\n"); section = ''
Begin ==
    /\ prog = "pretty_print"
    /\ pp_pc = "input"
    /\ pp_out' = <<[kind |-> "open"]>>
    /\ pp_section' = <<>>
    /\ pp_i' = 0
    /\ pp_pc' = "printing"
    /\ UNCHANGED <<prog, pp_df, ptb_vars, dep_vars, wn_vars, batch_vars>>

\* one iteration of "for index, row in input_df.iterrows()"
PrintRow ==
    /\ prog = "pretty_print"
    /\ pp_pc = "printing"
    /\ pp_i < Len(pp_df)
    /\ LET row == pp_df[pp_i + 1]
           label == Label(row)
           header == IF NeedsHeader(row.index, pp_section, label)
                     THEN <<[kind |-> "header", label |-> label,
                             lead |-> (row.index # 0), row |-> pp_i + 1]>>
                     ELSE <<>>
       IN  /\ pp_section' = IF header # <<>> THEN label ELSE pp_section
           /\ pp_out' = pp_out \o header
                           \o <<[kind |-> "line", number |-> row.index + 1, row |-> pp_i + 1]>>
    /\ pp_i' = pp_i + 1
    /\ UNCHANGED <<prog, pp_df, pp_pc, ptb_vars, dep_vars, wn_vars, batch_vars>>

\* out_file.write("}"); out_file.close()
Finish ==
    /\ prog = "pretty_print"
    /\ pp_pc = "printing"
    /\ pp_i = Len(pp_df)
    /\ pp_out' = Append(pp_out, [kind |-> "close"])
    /\ pp_pc' = "closed"
    /\ UNCHANGED <<prog, pp_df, pp_i, pp_section, ptb_vars, dep_vars, wn_vars, batch_vars>>

InitPretty ==
    /\ prog = "pretty_print"
    /\ PTBIdle
    /\ DepIdle
    /\ WNIdle
    /\ BatchIdle
    /\ PrettyIdle

NextPretty ==
    \/ \E index \in IndexValues, cat1, cat2 \in Categories : AddRow(index, cat1, cat2)
    \/ Begin
    \/ PrintRow
    \/ Finish

SpecPretty == InitPretty /\ [][NextPretty]_vars

-----------------------------------------------------------------------------
(* Properties of PTB.py *)

\* the PTB main loop has processed a line of a GUM / a PTB.ext file
GumProcessed == prog = "PTB" /\ gum /\ ptb_pc = "processed"
ExtProcessed == prog = "PTB" /\ ~gum /\ ptb_pc = "processed"

\* the phrases of the processed line that the loop iteration of subtree s appended
EmittedFor(s) ==
    LET ix == SelectSeq([k \in 1..Len(coordphrases) |-> k], LAMBDA k : origin[k] = s)
    IN  [k \in 1..Len(ix) |-> coordphrases[ix[k]]]

\* the children of node i, in order, read off the parent links
ChildrenOf(i) == SelectSeq([k \in 1..Len(nodes) |-> k], LAMBDA k : nodes[k].parent = i)

\* a node labelled exactly CC whose parent has exactly n children
IsCCUnder(s, n) ==
    /\ nodes[s].label = <<"C", "C">>
    /\ nodes[s].parent # 0
    /\ Len(ChildrenOf(nodes[s].parent)) = n

\* the phrase with conjuncts a and b, in that order, of the parent of s
ExpectedPhrase(s, a, b, conjunction) ==
    <<  << <<nodes[a].label, get_tree_text(nodes, a)>>,
           <<nodes[b].label, get_tree_text(nodes, b)>> >>,
        conjunction,
        nodes[nodes[s].parent].label,
        get_tree_text(nodes, nodes[s].parent) >>

\* C2: in the unannotated matcher, a CC node under a parent of exactly 3
\* children yields exactly one phrase when it has a left and a right sibling
\* (it is the middle child): conjuncts (left label, left text), (right label,
\* right text), conjunction the CC node's text, category and text the
\* parent's; a CC node that is the first or the last child yields no phrase.
C2_ThreeProng ==
    GumProcessed =>
        \A s \in 1..Len(nodes) :
            IsCCUnder(s, 3) =>
                LET ks == ChildrenOf(nodes[s].parent)
                IN  IF s = ks[2]
                    THEN EmittedFor(s) =
                            <<ExpectedPhrase(s, ks[1], ks[3], get_tree_text(nodes, s))>>
                    ELSE EmittedFor(s) = <<>>

\* a middle CC between two different siblings has produced its phrase
C2_Witness ==
    /\ GumProcessed
    /\ \E s \in 1..Len(nodes) :
          /\ IsCCUnder(s, 3)
          /\ s = ChildrenOf(nodes[s].parent)[2]
          /\ LET ks == ChildrenOf(nodes[s].parent)
             IN  <<nodes[ks[1]].label, get_tree_text(nodes, ks[1])>>
                     # <<nodes[ks[3]].label, get_tree_text(nodes, ks[3])>>
          /\ Len(EmittedFor(s)) = 1

\* parent of s has 4 children, the first reading "neither", the third "nor"
NeitherNorParent(s) ==
    LET ks == ChildrenOf(nodes[s].parent)
    IN  /\ get_tree_text(nodes, ks[1]) = <<"n", "e", "i", "t", "h", "e", "r">>
        /\ get_tree_text(nodes, ks[3]) = <<"n", "o", "r">>

\* C3: in the unannotated matcher, a matched CC node under a parent of 4
\* children whose child[0] reads "neither" and child[2] reads "nor" yields the
\* phrase with conjuncts child[1], child[3] and conjunction "nor", whatever
\* the parent's label and whichever child the CC node is.
C3_NeitherNor ==
    GumProcessed =>
        \A s \in 1..Len(nodes) :
            (IsCCUnder(s, 4) /\ NeitherNorParent(s)) =>
                LET ks == ChildrenOf(nodes[s].parent)
                IN  EmittedFor(s) = <<ExpectedPhrase(s, ks[2], ks[4], <<"n", "o", "r">>)>>

\* a neither/nor phrase was produced by a CC node that is not the "nor"
\* child, under a parent that is not a VP
C3_Witness ==
    /\ GumProcessed
    /\ \E s \in 1..Len(nodes) :
          /\ IsCCUnder(s, 4)
          /\ NeitherNorParent(s)
          /\ s # ChildrenOf(nodes[s].parent)[3]
          /\ nodes[nodes[s].parent].label # <<"V", "P">>
          /\ Len(EmittedFor(s)) = 1

\* C4: in the unannotated matcher, a matched CC node under a parent of 4
\* children that is not a neither/nor construction yields a phrase iff the
\* parent's label is VP and child[2]'s label is CC; the phrase then has
\* conjuncts child[1], child[3] and conjunction child[2]'s text.
C4_VPComplements ==
    GumProcessed =>
        \A s \in 1..Len(nodes) :
            (IsCCUnder(s, 4) /\ ~NeitherNorParent(s)) =>
                LET ks == ChildrenOf(nodes[s].parent)
                IN  IF /\ nodes[nodes[s].parent].label = <<"V", "P">>
                       /\ nodes[ks[3]].label = <<"C", "C">>
                    THEN EmittedFor(s) =
                            <<ExpectedPhrase(s, ks[2], ks[4], get_tree_text(nodes, ks[3]))>>
                    ELSE EmittedFor(s) = <<>>

\* a VP of 4 children with a CC third child, not neither/nor, has produced
\* its phrase
C4_Witness ==
    /\ GumProcessed
    /\ \E s \in 1..Len(nodes) :
          /\ IsCCUnder(s, 4)
          /\ ~NeitherNorParent(s)
          /\ nodes[nodes[s].parent].label = <<"V", "P">>
          /\ nodes[ChildrenOf(nodes[s].parent)[3]].label = <<"C", "C">>
          /\ Len(EmittedFor(s)) = 1

\* the children of node i whose label contains sub
ChildrenLabelled(i, sub) ==
    SelectSeq(ChildrenOf(i), LAMBDA c : Contains(sub, nodes[c].label))

\* C5: in the annotated matcher, a subtree whose label contains "-CCP" yields
\* a phrase iff one of its direct children has a label containing "CC-CC";
\* the phrase's conjuncts are exactly the direct children whose label
\* contains "-COORD", in child order; its conjunction is the text of a CC-CC
\* child (of the CC-CC child when there is one only); its category and text
\* are the -CCP node's.  No other subtree yields a phrase.
C5_Annotated ==
    ExtProcessed =>
        /\ \A k \in 1..Len(origin) : Contains(<<"-", "C", "C", "P">>, nodes[origin[k]].label)
        /\ \A s \in 1..Len(nodes) :
              Contains(<<"-", "C", "C", "P">>, nodes[s].label) =>
                LET ccs == ChildrenLabelled(s, <<"C", "C", "-", "C", "C">>)
                    cos == ChildrenLabelled(s, <<"-", "C", "O", "O", "R", "D">>)
                IN  IF ccs = <<>> THEN EmittedFor(s) = <<>>
                    ELSE /\ Len(EmittedFor(s)) = 1
                         /\ EmittedFor(s)[1][1] =
                                [k \in 1..Len(cos) |->
                                    <<nodes[cos[k]].label, get_tree_text(nodes, cos[k])>>]
                         /\ \E c \in 1..Len(ccs) :
                                EmittedFor(s)[1][2] = get_tree_text(nodes, ccs[c])
                         /\ EmittedFor(s)[1][3] = nodes[s].label
                         /\ EmittedFor(s)[1][4] = get_tree_text(nodes, s)

\* a -CCP node with a CC-CC child and a -COORD node below it that is not its
\* child has produced its phrase
C5_Witness ==
    /\ ExtProcessed
    /\ \E s \in 1..Len(nodes) :
          /\ Contains(<<"-", "C", "C", "P">>, nodes[s].label)
          /\ ChildrenLabelled(s, <<"C", "C", "-", "C", "C">>) # <<>>
          /\ \E d \in 1..Len(nodes) :
                /\ Contains(<<"-", "C", "O", "O", "R", "D">>, nodes[d].label)
                /\ nodes[d].parent # 0
                /\ nodes[d].parent # s
                /\ nodes[nodes[d].parent].parent = s
          /\ Len(EmittedFor(s)) = 1

\* the leaf tokens under node i, left to right: the arena is in preorder
LeafSeq(i) ==
    LET under == SelectSeq([k \in 1..Len(nodes) |-> k],
                           LAMBDA k : i \in Ancestors(nodes, k) /\ nodes[k].leaf # <<>>)
    IN  [k \in 1..Len(under) |-> nodes[under[k]].leaf]

RECURSIVE Words(_)
\* the space-separated words of a text in which every space separates two words
Words(text) ==
    IF text = <<>> THEN <<>>
    ELSE IF \E i \in 1..Len(text) : text[i] = " "
    THEN LET sp == CHOOSE i \in 1..Len(text) :
                        text[i] = " " /\ \A j \in 1..(i - 1) : text[j] # " "
         IN  <<SubSeq(text, 1, sp - 1)>> \o Words(SubSeq(text, sp + 1, Len(text)))
    ELSE <<text>>

HasStar(text) == \E i \in 1..Len(text) : text[i] = "*"

\* the texts stored in a PTB row: conjunct texts, phrase text, sentence text
\* (columns 2, 4, 6 and 8 of a two-conjunct row)
RowTexts(row) == {row[2], row[4], row[6], row[8]}

\* C6: the text of every subtree is its leaf tokens in left-to-right order
\* joined by single spaces, without exactly the leaves that contain '*'; no
\* conjunct text, phrase text or sentence text contains a trace leaf.
C6_TreeText ==
    (prog = "PTB" /\ ptb_pc = "processed") =>
        /\ \A i \in 1..Len(nodes) :
              Words(get_tree_text(nodes, i)) =
                  SelectSeq(LeafSeq(i), LAMBDA leaf : ~HasStar(leaf))
        /\ \A k \in 1..Len(coordphrases) :
              /\ ~HasStar(coordphrases[k][4])
              /\ \A c \in 1..Len(coordphrases[k][1]) : ~HasStar(coordphrases[k][1][c][2])
        /\ \A r \in 1..Len(data) : \A text \in RowTexts(data[r]) : ~HasStar(text)

\* a phrase over a trace leaf between two other leaves has been stored
C6_Witness ==
    /\ prog = "PTB" /\ ptb_pc = "processed"
    /\ data # <<>>
    /\ \E i \in 1..Len(nodes) :
          /\ Len(LeafSeq(i)) >= 3
          /\ \E k \in 2..(Len(LeafSeq(i)) - 1) :
                HasStar(LeafSeq(i)[k]) /\ ~HasStar(LeafSeq(i)[1])
                /\ ~HasStar(LeafSeq(i)[Len(LeafSeq(i))])
          /\ \E k \in 1..Len(coordphrases) :
                coordphrases[k][4] = get_tree_text(nodes, i)

\* the phrases of the processed line that come from the CC children of node p
PhrasesOfParent(p) ==
    SelectSeq([k \in 1..Len(coordphrases) |-> k], LAMBDA k : nodes[origin[k]].parent = p)

\* C17 (as claimed): in the unannotated matcher a parent node of 3 or 4
\* children contributes at most one phrase to the result, also when more than
\* one of its children is labelled CC.
C17_Claim ==
    GumProcessed =>
        \A p \in 1..Len(nodes) :
            Len(ChildrenOf(p)) \in {3, 4} => Len(PhrasesOfParent(p)) <= 1

\* C17 for the parents of 3 children: only the middle child has both
\* siblings, so such a parent contributes at most one phrase.
C17_ThreeChildren ==
    GumProcessed =>
        \A p \in 1..Len(nodes) :
            Len(ChildrenOf(p)) = 3 => Len(PhrasesOfParent(p)) <= 1

-----------------------------------------------------------------------------
(* Properties of depccps.py *)

\* the depccps main loop has processed a sentence
DepProcessed == prog = "depccps" /\ dep_pc = "processed"

TokenIds == 1..Len(tokenlist)

\* some token is an orphan of token t
HasOrphan(t) ==
    \E o \in TokenIds : tokenlist[o].deprel = "orphan" /\ tokenlist[o].head = t

\* token t has enhanced dependencies and no orphan: a candidate
IsCandidate(t) == tokenlist[t].deps # <<>> /\ ~HasOrphan(t)

\* the positions of the dependencies of token t labelled exactly conj:<cc>
ConjEntries(t, cc) ==
    {k \in 1..Len(tokenlist[t].deps) : tokenlist[t].deps[k][1] = <<"conj", cc>>}

\* the ids the conj:<cc> dependencies of token t lead to
ConjTargets(t, cc) == {tokenlist[t].deps[k][2] : k \in ConjEntries(t, cc)}

\* every enhanced-dependency head is a token of the sentence
HeadsExist ==
    \A t \in TokenIds : \A k \in 1..Len(tokenlist[t].deps) :
        tokenlist[t].deps[k][2] \in TokenIds

\* the first-conjunct ids the groups of conjunction number c are keyed by
GroupKeys(c) == {id_sets[c][k][1] : k \in 1..Len(id_sets[c])}

\* the members of item k of the groups of conjunction number c
Members(c, k) == {id_sets[c][k][2][j] : j \in 1..Len(id_sets[c][k][2])}

\* the phrase returned for item k of the groups of conjunction number c
RECURSIVE GroupsBefore(_)
GroupsBefore(c) == IF c = 1 THEN 0 ELSE GroupsBefore(c - 1) + Len(id_sets[c - 1])
PhraseOfGroup(c, k) == dep_phrases[GroupsBefore(c) + k]

\* C7 (as claimed): when every enhanced-dependency head is a token of the
\* sentence, get_coordphrases(tokenlist, cc) returns exactly one group per id
\* h that a conj:<cc> dependency of some candidate token leads to, made of
\* token h and of every candidate token with a conj:<cc> dependency to h.
C7_Claim ==
    (DepProcessed /\ HeadsExist) =>
        \A c \in 1..Len(CCS) :
            /\ GroupKeys(c) =
                  {h \in TokenIds : \E t \in TokenIds :
                        IsCandidate(t) /\ h \in ConjTargets(t, CCS[c])}
            /\ Cardinality(GroupKeys(c)) = Len(id_sets[c])
            /\ \A k \in 1..Len(id_sets[c]) :
                  /\ Members(c, k) = {id_sets[c][k][1]} \cup
                        {t \in TokenIds :
                            IsCandidate(t) /\ id_sets[c][k][1] \in ConjTargets(t, CCS[c])}
                  /\ PhraseOfGroup(c, k)[1] = CCS[c]
                  /\ Len(PhraseOfGroup(c, k)[2]) = Cardinality(Members(c, k))

\* no token of the sentence has two dependencies labelled conj:<cc> for one cc
AtMostOneConjDep ==
    \A t \in TokenIds : \A c \in 1..Len(CCS) : Cardinality(ConjEntries(t, CCS[c])) <= 1

\* C7 on the sentences get_conj_dep is documented for ("There will always be
\* at most one such dependency"): there the grouping is as claimed.
C7_SingleConjDep == AtMostOneConjDep => C7_Claim

\* a chain of three sharing one first conjunct has formed one group of three
C7_ChainWitness ==
    /\ DepProcessed /\ HeadsExist /\ AtMostOneConjDep
    /\ \E k \in 1..Len(id_sets[1]) : Cardinality(Members(1, k)) = 3

\* C8: a token with an orphan dependent is never used as a candidate: it is
\* in a group only as the first conjunct of another token's conj:<cc>
\* dependency; a token without orphan dependent and with enhanced dependencies
\* is always scanned: if it has a conj:<cc> dependency, it is in the group of
\* one of the ids they lead to.
C8_Promoted ==
    DepProcessed =>
        \A c \in 1..Len(CCS) : \A t \in TokenIds :
            /\ HasOrphan(t) =>
                  \A k \in 1..Len(id_sets[c]) :
                      t \in Members(c, k) =>
                          /\ id_sets[c][k][1] = t
                          /\ \E u \in TokenIds \ {t} :
                                /\ tokenlist[u].deps # <<>>
                                /\ ~HasOrphan(u)
                                /\ t \in ConjTargets(u, CCS[c])
            /\ (~HasOrphan(t) /\ tokenlist[t].deps # <<>> /\ ConjTargets(t, CCS[c]) # {}) =>
                  \E k \in 1..Len(id_sets[c]) :
                      /\ id_sets[c][k][1] \in ConjTargets(t, CCS[c])
                      /\ t \in Members(c, k)

\* a token with a conj:and dependency and an orphan dependent was left out,
\* while a token with a conj:and dependency and no orphan dependent was grouped
C8_Witness ==
    /\ DepProcessed
    /\ \E t \in TokenIds :
          /\ HasOrphan(t)
          /\ ConjTargets(t, "and") # {}
          /\ \A k \in 1..Len(id_sets[1]) : t \notin Members(1, k)
    /\ \E t \in TokenIds :
          /\ ~HasOrphan(t)
          /\ \E k \in 1..Len(id_sets[1]) : t \in Members(1, k) /\ id_sets[1][k][1] # t

\* C9 (as claimed): a scanned token with more than one dependency labelled
\* conj:<cc> is a data-integrity violation that is surfaced: the sentence is
\* not processed with one of the entries silently picked as first conjunct.
C9_Claim ==
    DepProcessed =>
        \A c \in 1..Len(CCS) : \A t \in TokenIds :
            (IsCandidate(t) /\ Cardinality(ConjEntries(t, CCS[c])) > 1) =>
                ~ \E k \in 1..Len(id_sets[c]) : t \in Members(c, k)

\* the ids of S in increasing order
Ascending(S) ==
    CHOOSE seq \in [1..Cardinality(S) -> S] :
        \A i, j \in 1..Cardinality(S) : i < j => seq[i] < seq[j]

\* (upos, lemma, form) of token t, "GAP" being the lemma of an elided token
TupleOf(t) ==
    <<tokenlist[t].upos,
      IF tokenlist[t].deprel = "_" THEN "GAP" ELSE tokenlist[t].lemma,
      tokenlist[t].form>>

\* C10: the conjunct tuples of every group are listed in increasing token id
\* (sentence order), whatever the order in which the ids entered the group;
\* the row of a two-conjunct group starts with the earlier token.
C10_SentenceOrder ==
    DepProcessed =>
        \A c \in 1..Len(CCS) : \A k \in 1..Len(id_sets[c]) :
            LET ids == Ascending(Members(c, k) \cap TokenIds)
                conjuncts == PhraseOfGroup(c, k)[2]
            IN  /\ conjuncts = [j \in 1..Len(ids) |-> TupleOf(ids[j])]
                /\ Len(ids) = 2 =>
                      \E r \in 1..Len(dep_data) :
                          /\ Len(dep_data[r]) = 8
                          /\ SubSeq(dep_data[r], 1, 3) = TupleOf(ids[1])
                          /\ SubSeq(dep_data[r], 4, 6) = TupleOf(ids[2])
                          /\ dep_data[r][7] = CCS[c]

\* a group whose first conjunct follows its dependent token, the two tokens
\* differing, has given a row
C10_Witness ==
    /\ DepProcessed
    /\ dep_data # <<>>
    /\ \E c \in 1..Len(CCS) : \E k \in 1..Len(id_sets[c]) :
          /\ Members(c, k) \subseteq TokenIds
          /\ Cardinality(Members(c, k)) = 2
          /\ \E t \in Members(c, k) :
                t < id_sets[c][k][1] /\ TupleOf(t) # TupleOf(id_sets[c][k][1])

\* depccps.py has written the CSV of the file
DepWritten == prog = "depccps" /\ dep_pc = "written"

\* a row with both categories among NOUN, VERB, ADJ, ADV, no lemma be or do,
\* and a conjunction among and, or, but, nor
RowQualifies(row) ==
    /\ row[1] \in {"NOUN", "VERB", "ADJ", "ADV"}
    /\ row[4] \in {"NOUN", "VERB", "ADJ", "ADV"}
    /\ row[2] \notin {"be", "do"}
    /\ row[5] \notin {"be", "do"}
    /\ row[7] \in {"and", "or", "but", "nor"}

\* C18: every row of the CSV written by depccps.py has both conjunct
\* categories in {NOUN, VERB, ADJ, ADV}, no conjunct lemma 'be' or 'do' and a
\* conjunction among and/or/but/nor; no two rows of the CSV are identical;
\* and the CSV holds every such row extracted from the file, once.
C18_CSVRows ==
    DepWritten =>
        /\ \A r \in 1..Len(dep_csv) : RowQualifies(dep_csv[r])
        /\ \A r1, r2 \in 1..Len(dep_csv) : r1 # r2 => dep_csv[r1] # dep_csv[r2]
        /\ {dep_csv[r] : r \in 1..Len(dep_csv)} =
              {dep_data[r] : r \in {k \in 1..Len(dep_data) : RowQualifies(dep_data[k])}}

\* a file gave the same qualifying row twice and a row that does not qualify:
\* its CSV has the one row
C18_Witness ==
    /\ DepWritten
    /\ \E r1, r2 \in 1..Len(dep_data) :
          r1 # r2 /\ dep_data[r1] = dep_data[r2] /\ RowQualifies(dep_data[r1])
    /\ \E r \in 1..Len(dep_data) : ~RowQualifies(dep_data[r])
    /\ Len(dep_csv) = 1

-----------------------------------------------------------------------------
(* Properties of wordnet_relations.py *)

\* a relation function has been called and the call is over
Answered == prog = "wordnet" /\ wn_pc = "answered"

\* the arguments of the call
QFn == wn_query[1]
QWord1 == wn_query[2]
QWord2 == wn_query[3]
QTag == wn_query[4]

\* the four universal POS tags WordNet has a part of speech for
UposTags == {"ADJ", "VERB", "NOUN", "ADV"}

\* the senses WordNet has for a word under a universal POS tag
SensesOf(word, tag) ==
    IF tag = "NOUN" THEN {l[2] : l \in {x \in wn_senses : x[1] = Lower(word)}} ELSE {}

\* two letters that are equal up to case
SameLetter(c, d) == c = d \/ {c, d} = {"o", "O"} \/ {c, d} = {"e", "E"}

\* two words that are the same string up to letter case
SameUpToCase(w1, w2) ==
    Len(w1) = Len(w2) /\ \A i \in 1..Len(w1) : SameLetter(w1[i], w2[i])

\* C11 (as claimed): every call of a relation function, with a universal POS
\* tag or with the category of a like-category row that utils.py passes,
\* returns True, False or None; no call ends in a raised error.
C11_Claim ==
    (Answered /\ QTag \in UposTags \cup NOUN_CATEGORIES) =>
        wn_result \in {"True", "False", "None"}

\* C11 on the universal POS tags alone: there the outcome is three-valued.
C11_UposTags ==
    (Answered /\ QTag \in UposTags) => wn_result \in {"True", "False", "None"}

\* C12 (as claimed): with a valid category, if either word has no sense for
\* the category, every relation function returns None, also when the two
\* words are the same string up to letter case.
C12_Claim ==
    (Answered /\ QTag \in UposTags
        /\ (SensesOf(QWord1, QTag) = {} \/ SensesOf(QWord2, QTag) = {})) =>
        wn_result = "None"

\* C12 (amended): with a valid category, if either word has no sense for the
\* category, the function returns None - except synonyms and co_hyponyms
\* called with two words equal up to letter case, which return False before
\* any sense is looked up.
C12_ZeroSenses ==
    (Answered /\ QTag \in UposTags
        /\ (SensesOf(QWord1, QTag) = {} \/ SensesOf(QWord2, QTag) = {})) =>
        IF QFn \in {"synonyms", "co_hyponyms"} /\ SameUpToCase(QWord1, QWord2)
        THEN wn_result = "False"
        ELSE wn_result = "None"

Chain(rel, a, b) ==
    \E n \in 1..Cardinality(Synsets) : \E path \in [0..n -> Synsets] :
        /\ path[0] = a
        /\ path[n] = b
        /\ \A i \in 0..(n - 1) : <<path[i], path[i + 1]>> \in rel

\* C15: when both words have a sense, is_hypernym(word1, word2, tag) is True
\* iff some sense of word1 is reached from some sense of word2 by one or more
\* hypernym steps, and entails(word1, word2, tag) is True iff some sense of
\* word2 is reached from some sense of word1 by one or more entailment steps
\* (the start sense itself not counting); otherwise each is False.
C15_TransitiveClosure ==
    (Answered /\ QTag \in UposTags
        /\ SensesOf(QWord1, QTag) # {} /\ SensesOf(QWord2, QTag) # {}) =>
        /\ QFn = "is_hypernym" =>
              wn_result =
                  IF \E s1 \in SensesOf(QWord1, QTag), s2 \in SensesOf(QWord2, QTag) :
                         s1 # s2 /\ Chain(wn_hyper, s2, s1)
                  THEN "True" ELSE "False"
        /\ QFn = "entails" =>
              wn_result =
                  IF \E s1 \in SensesOf(QWord1, QTag), s2 \in SensesOf(QWord2, QTag) :
                         s1 # s2 /\ Chain(wn_entail, s1, s2)
                  THEN "True" ELSE "False"

\* is_hypernym returned True for two words whose senses are two hypernym
\* steps apart, no sense of the one being a direct hypernym of the other's
C15_Witness ==
    /\ Answered
    /\ QFn = "is_hypernym"
    /\ QTag = "NOUN"
    /\ SensesOf(QWord1, QTag) # {} /\ SensesOf(QWord2, QTag) # {}
    /\ \A s1 \in SensesOf(QWord1, QTag), s2 \in SensesOf(QWord2, QTag) :
          <<s2, s1>> \notin wn_hyper
    /\ wn_result = "True"

-----------------------------------------------------------------------------
(* Properties of the loop over the input files *)

\* the batch run is over
BatchOver == prog = "batch" /\ b_pc \in {"done", "crashed"}

\* the CSV files written for input file k
CSVOf(k) == SelectSeq(b_csv, LAMBDA c : c.file = k)

\* C14 (as claimed): in a batch run, an input file that cannot be opened ends
\* the processing of that file only: at the end of the run, the CSV of every
\* other file is written, and holds exactly the rows of that file's own
\* sentences.
C14_Claim ==
    BatchOver =>
        \A k \in 1..Len(b_files) :
            b_files[k].readable =>
                /\ Len(CSVOf(k)) = 1
                /\ CSVOf(k)[1].rows = FileCSV(b_prog, b_gum, b_files[k].lines)

\* the first input file that cannot be opened; Len(b_files) + 1 if all can
FirstUnreadable ==
    IF \E k \in 1..Len(b_files) : ~b_files[k].readable
    THEN CHOOSE k \in 1..Len(b_files) :
            ~b_files[k].readable /\ \A j \in 1..(k - 1) : b_files[j].readable
    ELSE Len(b_files) + 1

\* what the loop does: the run ends at the first file that cannot be opened;
\* the files before it have their CSV, complete; that file and the files
\* after it have none.
C14_RunEndsAtFailure ==
    BatchOver =>
        /\ b_pc = "crashed" <=> FirstUnreadable <= Len(b_files)
        /\ \A k \in 1..Len(b_files) :
              IF k < FirstUnreadable
              THEN /\ Len(CSVOf(k)) = 1
                   /\ CSVOf(k)[1].rows = FileCSV(b_prog, b_gum, b_files[k].lines)
              ELSE CSVOf(k) = <<>>

-----------------------------------------------------------------------------
(* Properties of utils.pretty_print *)

\* a section header was written in the loop iteration of row r
HeaderBefore(r) ==
    \E k \in 1..Len(pp_out) : pp_out[k].kind = "header" /\ pp_out[k].row = r

\* the category-pair label of row r
LabelOf(r) == pp_df[r].cat1 \o <<"+">> \o pp_df[r].cat2

\* C16 (as claimed): a section header is written before a row exactly when
\* the row is the first row or its label differs from the previous row's
\* label, whatever the index labels of the DataFrame are.
C16_Claim ==
    prog = "pretty_print" =>
        \A r \in 1..pp_i :
            HeaderBefore(r) <=> (r = 1 \/ LabelOf(r) # LabelOf(r - 1))

\* the rows carry the default index labels 0, 1, 2, ...
DefaultIndex == \A r \in 1..Len(pp_df) : pp_df[r].index = r - 1

\* C16 on a DataFrame with the default index: there the headers are as claimed.
C16_DefaultIndex == DefaultIndex => C16_Claim

-----------------------------------------------------------------------------
(* Properties of both programs *)

\* the two-conjunct phrases among phs, whose conjunct list is component i
TwoConjunctPhrases(phs, i) == SelectSeq(phs, LAMBDA ph : Len(ph[i]) = 2)

\* C1: in both main loops a row is appended only for a phrase of exactly 2
\* conjuncts: every row holds the cells of two conjuncts (9 cells in PTB.py,
\* 8 in depccps.py), and the rows appended for the processed sentence are
\* those of its two-conjunct phrases, in order.
C1_TwoConjunctsOnly ==
    /\ prog = "PTB" =>
          /\ \A r \in 1..Len(data) : Len(data[r]) = 9
          /\ ptb_pc = "processed" =>
                LET two == TwoConjunctPhrases(coordphrases, 1)
                IN  /\ Len(data) >= Len(two)
                    /\ \A k \in 1..Len(two) :
                          LET row == data[Len(data) - Len(two) + k]
                          IN  /\ row[2] = two[k][1][1][2]
                              /\ row[4] = two[k][1][2][2]
                              /\ row[7] = two[k][2]
    /\ prog = "depccps" =>
          /\ \A r \in 1..Len(dep_data) : Len(dep_data[r]) = 8
          /\ dep_pc = "processed" =>
                LET two == TwoConjunctPhrases(dep_phrases, 2)
                IN  /\ Len(dep_data) >= Len(two)
                    /\ \A k \in 1..Len(two) :
                          LET row == dep_data[Len(dep_data) - Len(two) + k]
                          IN  /\ SubSeq(row, 1, 3) = two[k][2][1]
                              /\ SubSeq(row, 4, 6) = two[k][2][2]
                              /\ row[7] = two[k][1]

\* a line gave a phrase of two conjuncts and a phrase of another number: one row
C1_Witness ==
    /\ prog = "PTB" /\ ptb_pc = "processed"
    /\ \E k \in 1..Len(coordphrases) : Len(coordphrases[k][1]) # 2
    /\ \E k \in 1..Len(coordphrases) : Len(coordphrases[k][1]) = 2
    /\ Len(data) = 1

=============================================================================
